---- MODULE Spec2Model ----
(***************************************************************************)
(* A model of vektor8/bank-record-parser: the CEC block-regex parser       *)
(* (src/core/parsers/cec_parser.py), the installment aggregator and the    *)
(* summary writer (src/main.py, src/core/excel_io.py) and the category     *)
(* formula written into the transactions sheet (src/core/excel_io.py).     *)
(*                                                                         *)
(* Text is a sequence of one-character strings.  Python's None and the     *)
(* empty string are both the empty sequence; an optional integer n is      *)
(* <<n>>.  Money is kept in integer cents: the float v of the source is    *)
(* the integer 100 * v here.                                               *)
(***************************************************************************)
EXTENDS Integers, Sequences, FiniteSets, TLC

VARIABLES
    \* CecParser.parse_pdf / parse_text
    pages,          \* the text of each page of the PDF (pypdf's extract_text)
    text,           \* pdf_to_text's result, the argument of parse_text
    pos,            \* where BLOCK_RE.finditer goes on scanning (1-based)
    results,        \* parse_text's local list of transactions
    ppc,            \* "start", "scanning", "returned" or "raised"
    \* CecParser.__normalize_amount applied to one token
    token, cents, apc,
    \* process_pdf_to_excel from the parsed transactions on
    transactions,   \* parser_instance.parse_pdf's result
    rate_buckets,   \* compute_summary's dict, as its items in insertion order
    cheltuieli,     \* compute_summary's total of the non-installment amounts
    rate_noi,       \* compute_summary's total of the newly opened plans
    summary,        \* the list of rows handed to write_summary_section_openpyxl
    sheet,          \* the cells that writer sets: <<row, column>> -> value
    xpc,            \* "start", "no_transactions", "summarised", "written", "raised"
    \* the Rules sheet and the category formula of one transactions row
    rules,          \* the rules argument of process_pdf_to_excel
    table,          \* the rows of the workbook's Rules table; <<>>: no Rules sheet
    store,          \* the row's store cell
    category,       \* the row's category cell as the spreadsheet shows it
    cpc,            \* "start", "sheets_written" or "calculated"
    \* one call of process_pdf_to_excel, from the PDF to the saved workbook
    args,           \* existing_excel, output_path, sheet_name, rules
    disk,           \* path -> the workbook stored there; <<>>: no such file
    workbook,       \* None, or <<the workbook the call has opened or created>>
    saved,          \* the paths workbook.save has written, in order
    outcome,        \* "none", "no_transactions", "success" or "raised"
    rpc,            \* "parse_pdf", "opened", "written" or "done"
    \* CecParser.validate_pdf and registry.auto_detect_parser on one PDF
    valid,          \* validate_pdf's result
    detected,       \* auto_detect_parser's result; "": None
    dpc,            \* "start", "validated" or "detected"
    \* the rule-load step of ParserGUI._process_pdf_thread
    rule_rows,      \* the rows of the workbook's Rules sheet from row 2; <<>>: none
    csv_lines,      \* the lines of rules.csv
    loaded,         \* the worker's local list rules
    rules_from,     \* "none", "workbook" or "file": where loaded comes from
    lpc,            \* "start", "workbook_read", "file_read" or "loaded"
    \* ParserGUI: the Tk variables, the Process button and the threads
    pdf_path, selected_parser, excel_path, output_path, use_existing_excel,
    process_btn,    \* the button's state: "normal" or "disabled"
    detect_threads, \* the running background_proc threads of browse_pdf
    worker,         \* the _process_pdf_thread thread: pc, parser read, outcome
    after_queue,    \* the callbacks root.after has queued for the main loop
    pressed,        \* selected_parser as it was when Process was last pressed
    chosen          \* the parser the user picked by hand since the last PDF; "": none

parseVars == <<pages, text, pos, results, ppc>>
amountVars == <<token, cents, apc>>
processVars == <<transactions, rate_buckets, cheltuieli, rate_noi, summary, sheet, xpc>>
categoryVars == <<rules, table, store, category, cpc>>
runVars == <<args, disk, workbook, saved, outcome, rpc>>
detectVars == <<valid, detected, dpc>>
loadVars == <<rule_rows, csv_lines, loaded, rules_from, lpc>>
guiVars == <<pdf_path, selected_parser, excel_path, output_path, use_existing_excel, process_btn, detect_threads, worker, after_queue, pressed, chosen>>
vars == <<pages, text, pos, results, ppc, token, cents, apc,
          transactions, rate_buckets, cheltuieli, rate_noi, summary, sheet, xpc,
          rules, table, store, category, cpc,
          args, disk, workbook, saved, outcome, rpc,
          valid, detected, dpc,
          rule_rows, csv_lines, loaded, rules_from, lpc,
          pdf_path, selected_parser, excel_path, output_path, use_existing_excel, process_btn, detect_threads, worker, after_queue, pressed, chosen>>

None == <<>>
Some(v) == <<v>>

(***************************************************************************)
(* Characters and the character classes of Python's re module (ASCII).     *)
(***************************************************************************)
Digits == <<"0", "1", "2", "3", "4", "5", "6", "7", "8", "9">>
UpperCase == <<"A", "B", "C", "D", "E", "F", "G", "H", "I", "J", "K", "L", "M",
               "N", "O", "P", "Q", "R", "S", "T", "U", "V", "W", "X", "Y", "Z">>
LowerCase == <<"a", "b", "c", "d", "e", "f", "g", "h", "i", "j", "k", "l", "m",
               "n", "o", "p", "q", "r", "s", "t", "u", "v", "w", "x", "y", "z">>

\* \d
IsDigit(c) == \E i \in 1..10 : Digits[i] = c
\* \s
IsSpace(c) == c \in {" ", "\n", "\t", "\r"}
\* [A-Z]
IsUpper(c) == \E i \in 1..26 : UpperCase[i] = c
\* [./-] inside DATE_REGEX
IsDateSep(c) == c \in {".", "/", "-"}
\* AMOUNT_RE's class [\d\.,]
IsAmountChar(c) == IsDigit(c) \/ c \in {".", ","}
\* [-+]
IsSign(c) == c \in {"-", "+"}

DigitVal(c) == (CHOOSE i \in 1..10 : Digits[i] = c) - 1

\* The leftmost of a set of positions; 0 when there is none.
Leftmost(S) == IF S = {} THEN 0 ELSE CHOOSE x \in S : \A y \in S : x <= y

\* The end (first position not in the class, or Len+1) of a greedy run.
RECURSIVE SkipSpace(_, _)
SkipSpace(t, p) == IF p <= Len(t) /\ IsSpace(t[p]) THEN SkipSpace(t, p + 1) ELSE p
RECURSIVE SkipDigits(_, _)
SkipDigits(t, p) == IF p <= Len(t) /\ IsDigit(t[p]) THEN SkipDigits(t, p + 1) ELSE p
RECURSIVE SkipUpper(_, _)
SkipUpper(t, p) == IF p <= Len(t) /\ IsUpper(t[p]) THEN SkipUpper(t, p + 1) ELSE p
RECURSIVE SkipAmount(_, _)
SkipAmount(t, p) == IF p <= Len(t) /\ IsAmountChar(t[p]) THEN SkipAmount(t, p + 1) ELSE p

\* A literal of a pattern at position p.
LitAt(t, p, lit) ==
    /\ p >= 1
    /\ p + Len(lit) - 1 <= Len(t)
    /\ \A i \in 1..Len(lit) : t[p + i - 1] = lit[i]

\* str.strip()
RECURSIVE StripLeft(_)
StripLeft(s) == IF s # <<>> /\ IsSpace(Head(s)) THEN StripLeft(Tail(s)) ELSE s
RECURSIVE StripRight(_)
StripRight(s) ==
    IF s # <<>> /\ IsSpace(s[Len(s)]) THEN StripRight(SubSeq(s, 1, Len(s) - 1)) ELSE s
Strip(s) == StripRight(StripLeft(s))

\* int(s) of a string of digits; int("") raises ValueError.
RECURSIVE IntOf(_)
IntOf(s) ==
    IF s = <<>> THEN 0
    ELSE 10 * IntOf(SubSeq(s, 1, Len(s) - 1)) + DigitVal(s[Len(s)])
IntRaises(s) == s = <<>> \/ \E i \in 1..Len(s) : ~IsDigit(s[i])

\* str(n) of a natural number, as the f-string of the rata field formats it.
RECURSIVE StrOfNat(_)
StrOfNat(n) ==
    IF n < 10 THEN <<Digits[n + 1]>>
    ELSE StrOfNat(n \div 10) \o <<Digits[(n % 10) + 1]>>

(***************************************************************************)
(* CecParser.__normalize_amount: s.replace(",", "").replace(".", "")       *)
(* .strip(), float(...) / 100.0.  The result is given in cents.            *)
(***************************************************************************)
RemoveSeparators(s) == SelectSeq(s, LAMBDA c : c # "," /\ c # ".")
normalize_amount_raises(s) == IntRaises(Strip(RemoveSeparators(s)))
\* The function with only the commas removed, so that float() reads the first
\* "." as the decimal point and all that follows it is below one cent.
normalize_amount_commas_only(s) ==
    LET u   == Strip(SelectSeq(s, LAMBDA c : c # ","))
        dot == Leftmost({i \in 1..Len(u) : u[i] = "."})
    IN  IF dot = 0 THEN IntOf(u) ELSE IntOf(SubSeq(u, 1, dot - 1))
normalize_amount(s) == IntOf(Strip(RemoveSeparators(s)))

(***************************************************************************)
(* DATE_REGEX = \d{2}[./-]\d{2}[./-]\d{4} at position p.                    *)
(***************************************************************************)
DATE_LEN == 10
DateAt(t, p) ==
    /\ p >= 1
    /\ p + DATE_LEN - 1 <= Len(t)
    /\ IsDigit(t[p]) /\ IsDigit(t[p + 1]) /\ IsDateSep(t[p + 2])
    /\ IsDigit(t[p + 3]) /\ IsDigit(t[p + 4]) /\ IsDateSep(t[p + 5])
    /\ IsDigit(t[p + 6]) /\ IsDigit(t[p + 7]) /\ IsDigit(t[p + 8]) /\ IsDigit(t[p + 9])

\* re.search(DATE_REGEX, t, pos): the first position >= p of a date, 0 if none.
FindDate(t, p) == Leftmost({d \in p..Len(t) : DateAt(t, d)})

(***************************************************************************)
(* BLOCK_RE.  Groups are spans <<first, last>> of the text; a group that    *)
(* did not take part (sign) is <<0, 0>>.                                    *)
(*                                                                         *)
(* BlockTail is the part of the pattern after the info group's closing \n:  *)
(*   (?P<ref>\d+?)\s*\n(?P<number>[A-Z]{2,}\d+)\s*(?P<sign>[-+])?\s*        *)
(*   (?P<amount>[\d\.,]+)                                                  *)
(* The lazy ref must stop where \s*\n can go on, so it is the whole run of  *)
(* digits; \s*\n must end on a newline right before the number; [A-Z]{2,}   *)
(* is the whole run of letters.  The greedy \d+ of the number first takes   *)
(* every digit; if no amount can follow, it gives back one digit, which     *)
(* then starts the amount (with no sign).                                   *)
(***************************************************************************)
NoTail == [ok |-> FALSE, ref |-> <<0, 0>>, number |-> <<0, 0>>, sign |-> <<0, 0>>,
           amount |-> <<0, 0>>, end |-> 0]

BlockTail(t, r) ==
    LET r2 == SkipDigits(t, r)          \* end of ref
        r3 == SkipSpace(t, r2)          \* start of number
        r4 == SkipUpper(t, r3)          \* end of the letters
        r5 == SkipDigits(t, r4)         \* end of the digits of number
        y  == SkipSpace(t, r5)          \* after the first \s*
        z  == SkipSpace(t, y + 1)       \* after the sign and the second \s*
    IN  IF ~(r2 > r /\ r3 > r2 /\ t[r3 - 1] = "\n" /\ r4 - r3 >= 2 /\ r5 > r4)
        THEN NoTail
        ELSE IF y <= Len(t) /\ IsSign(t[y]) /\ z <= Len(t) /\ IsAmountChar(t[z])
        THEN [ok |-> TRUE, ref |-> <<r, r2 - 1>>, number |-> <<r3, r5 - 1>>,
              sign |-> <<y, y>>, amount |-> <<z, SkipAmount(t, z) - 1>>,
              end |-> SkipAmount(t, z)]
        ELSE IF y <= Len(t) /\ IsAmountChar(t[y])
        THEN [ok |-> TRUE, ref |-> <<r, r2 - 1>>, number |-> <<r3, r5 - 1>>,
              sign |-> <<0, 0>>, amount |-> <<y, SkipAmount(t, y) - 1>>,
              end |-> SkipAmount(t, y)]
        ELSE IF r5 - r4 >= 2
        THEN [ok |-> TRUE, ref |-> <<r, r2 - 1>>, number |-> <<r3, r5 - 2>>,
              sign |-> <<0, 0>>, amount |-> <<r5 - 1, SkipAmount(t, r5 - 1) - 1>>,
              end |-> SkipAmount(t, r5 - 1)]
        ELSE NoTail

\* (?P<info>.*?)\n then the tail: the lazy info ends at the first newline e >= from
\* after which the tail matches (0 if there is none).
InfoEnd(t, from) == Leftmost({e \in from..Len(t) : t[e] = "\n" /\ BlockTail(t, e + 1).ok})

\* \s*\n after the date: the greedy \s* gives back characters one at a time, so the
\* newlines of the run are tried from the last one (k) down to the first (lo).
RECURSIVE InfoStart(_, _, _)
InfoStart(t, k, lo) ==
    IF k < lo THEN 0
    ELSE IF t[k] = "\n" /\ InfoEnd(t, k + 1) # 0 THEN k
    ELSE InfoStart(t, k - 1, lo)

NoMatch == [ok |-> FALSE, header_date |-> <<0, 0>>, date |-> <<0, 0>>, info |-> <<0, 0>>,
            ref |-> <<0, 0>>, number |-> <<0, 0>>, sign |-> <<0, 0>>, amount |-> <<0, 0>>,
            end |-> 0]

\* BLOCK_RE.match(t, s): the match the backtracking engine finds at s.
BLOCK_RE(t, s) ==
    IF ~DateAt(t, s) THEN NoMatch
    ELSE
    LET p1 == s + DATE_LEN
        d  == SkipSpace(t, p1)          \* \s*\n\s*\n? is all white space: the date is next
        p2 == d + DATE_LEN
        q  == SkipSpace(t, p2)
    IN  IF ~(DateAt(t, d) /\ \E k \in p1..(d - 1) : t[k] = "\n") THEN NoMatch
        ELSE
        LET k == InfoStart(t, q - 1, p2)
        IN  IF k = 0 THEN NoMatch
            ELSE
            LET e  == InfoEnd(t, k + 1)
                tl == BlockTail(t, e + 1)
            IN  [ok |-> TRUE, header_date |-> <<s, p1 - 1>>, date |-> <<d, p2 - 1>>,
                 info |-> <<k + 1, e - 1>>, ref |-> tl.ref, number |-> tl.number,
                 sign |-> tl.sign, amount |-> tl.amount, end |-> tl.end]

\* BLOCK_RE.finditer: the next match at or after p (leftmost start first).
NextMatch(t, p) ==
    LET s == Leftmost({x \in p..Len(t) : BLOCK_RE(t, x).ok})
    IN  IF s = 0 THEN NoMatch ELSE BLOCK_RE(t, s)

\* m.group(name); None for a group that did not take part.
Group(t, span) == IF span = <<0, 0>> THEN None ELSE SubSeq(t, span[1], span[2])

(***************************************************************************)
(* The secondary searches of parse_text on the stripped info blob.          *)
(***************************************************************************)
RATA_LIT == <<"R", "a", "t", "a", " ">>
DIN_LIT == <<" ", "d", "i", "n", " ">>
COMERCIANT_LIT == <<"c", "o", "m", "e", "r", "c", "i", "a", "n", "t">>
RON_LIT == <<"R", "O", "N">>

\* RATA_REGEX = "Rata (\d*) din (\d*)" at position p: both \d* are whole runs.
RataAt(t, p) == LitAt(t, p, RATA_LIT) /\ LitAt(t, SkipDigits(t, p + Len(RATA_LIT)), DIN_LIT)

\* RATA_REGEX.search(t): the groups of the leftmost match, or ok = FALSE.
RATA_REGEX(t) ==
    LET p == Leftmost({x \in 1..Len(t) : RataAt(t, x)})
        a == p + Len(RATA_LIT)
        b == SkipDigits(t, a)
        c == b + Len(DIN_LIT)
    IN  IF p = 0 THEN [ok |-> FALSE, g1 |-> <<>>, g2 |-> <<>>]
        ELSE [ok |-> TRUE, g1 |-> SubSeq(t, a, b - 1),
              g2 |-> SubSeq(t, c, SkipDigits(t, c) - 1)]

\* TOTAL_TRANZACTIE_REGEX = "\s+comerciant\s+([\d\.,]+)\s+RON" with the literal at x.
TotalAt(t, x) ==
    LET a == x + Len(COMERCIANT_LIT)
        b == SkipSpace(t, a)
        c == SkipAmount(t, b)
        d == SkipSpace(t, c)
    IN  /\ x > 1 /\ IsSpace(t[x - 1])
        /\ LitAt(t, x, COMERCIANT_LIT)
        /\ b > a /\ c > b /\ d > c
        /\ LitAt(t, d, RON_LIT)

\* TOTAL_TRANZACTIE_REGEX.search(t): group 1 of the leftmost match, or ok = FALSE.
\* (The leftmost match starts in the white space before the leftmost such literal.)
TOTAL_TRANZACTIE_REGEX(t) ==
    LET x == Leftmost({y \in 1..Len(t) : TotalAt(t, y)})
        b == SkipSpace(t, x + Len(COMERCIANT_LIT))
    IN  IF x = 0 THEN [ok |-> FALSE, g1 |-> <<>>]
        ELSE [ok |-> TRUE, g1 |-> SubSeq(t, b, SkipAmount(t, b) - 1)]

\* str.split(): the maximal runs of non-space characters.
RECURSIVE SplitWords(_)
SplitWords(s) ==
    LET u == StripLeft(s)
    IN  IF u = <<>> THEN <<>>
        ELSE LET n == CHOOSE k \in 1..Len(u) :
                        /\ \A i \in 1..k : ~IsSpace(u[i])
                        /\ (k = Len(u) \/ IsSpace(u[k + 1]))
             IN  <<SubSeq(u, 1, n)>> \o SplitWords(SubSeq(u, n + 1, Len(u)))

\* " ".join(words)
RECURSIVE JoinWords(_)
JoinWords(ws) ==
    IF ws = <<>> THEN <<>>
    ELSE IF Len(ws) = 1 THEN ws[1]
    ELSE ws[1] \o <<" ">> \o JoinWords(Tail(ws))

\* filter(lambda token: not re.match(r"\d", token), ...): drops the tokens that
\* begin with a digit.
KeepToken(w) == ~IsDigit(w[1])

\* Lines 103-112: re.split(DATE_REGEX, info)[1].strip(), filtered and joined; the
\* IndexError of an info with no date is caught and gives "".
Payee(info) ==
    LET d1 == FindDate(info, 1)
    IN  IF d1 = 0 THEN <<>>
        ELSE LET d2   == FindDate(info, d1 + DATE_LEN)
                 last == IF d2 = 0 THEN Len(info) ELSE d2 - 1
                 payload_after_date == Strip(SubSeq(info, d1 + DATE_LEN, last))
             IN  JoinWords(SelectSeq(SplitWords(payload_after_date), KeepToken))

(***************************************************************************)
(* The body of the loop of parse_text for one match m of BLOCK_RE.          *)
(***************************************************************************)
Negate_identity(x) == x
Negate(x) == 0 - x

\* int() of an empty installment group or float() of a token with no digit raises
\* ValueError, which parse_text does not catch.
BodyRaises(t, m) ==
    LET info == Strip(Group(t, m.info))
        installment_match == RATA_REGEX(info)
        total_match == TOTAL_TRANZACTIE_REGEX(info)
    IN  \/ normalize_amount_raises(Group(t, m.amount))
        \/ installment_match.ok /\ (IntRaises(installment_match.g1)
                                    \/ IntRaises(installment_match.g2))
        \/ total_match.ok /\ normalize_amount_raises(total_match.g1)

RataField(installment, installment_count) ==
    IF installment_count # None /\ installment_count[1] # 0
    THEN RATA_LIT \o StrOfNat(installment[1]) \o DIN_LIT \o StrOfNat(installment_count[1])
    ELSE <<>>

Transaction(t, m) ==
    LET info == Strip(Group(t, m.info))
        sign == Group(t, m.sign)
        amount == normalize_amount(Group(t, m.amount))
        installment_match == RATA_REGEX(info)
        installment == IF installment_match.ok
                       THEN Some(IntOf(installment_match.g1)) ELSE None
        installment_count == IF installment_match.ok
                             THEN Some(IntOf(installment_match.g2)) ELSE None
        total_match == TOTAL_TRANZACTIE_REGEX(info)
        transaction_total == IF total_match.ok THEN normalize_amount(total_match.g1) ELSE 0
        payee == Payee(info)
    IN  [date |-> Group(t, m.date),
         details |-> info,
         rata |-> RataField(installment, installment_count),
         store |-> payee,
         transaction_nr |-> Group(t, m.number),
         total_transaction |-> IF sign = <<"+">> THEN transaction_total
                               ELSE Negate(transaction_total),
         amount |-> IF sign = <<"+">> THEN amount ELSE Negate(amount),
         vendor |-> payee,
         ref |-> Strip(Group(t, m.ref)),
         number |-> Group(t, m.number),
         transaction_total |-> transaction_total,
         header_date |-> Group(t, m.header_date),
         installment |-> installment,
         installment_count |-> installment_count,
         sign |-> sign]

(***************************************************************************)
(* core.utils.pdf_to_text: "\n".join of the pages' texts.                   *)
(***************************************************************************)
RECURSIVE pdf_to_text(_)
pdf_to_text(ps) ==
    IF ps = <<>> THEN <<>>
    ELSE IF Len(ps) = 1 THEN ps[1]
    ELSE ps[1] \o <<"\n">> \o pdf_to_text(Tail(ps))

(***************************************************************************)
(* The documents the parser is run on: up to MaxPages pages, each holding   *)
(* one statement block put together from the parts below.                   *)
(***************************************************************************)
MaxPages == 2

HEADER_DASH == <<"1", "4", "-", "0", "3", "-", "2", "0", "2", "4", "\n">>
HEADER_DOT == <<"1", "4", ".", "0", "3", ".", "2", "0", "2", "4", " ", "\n", "\n">>
DATE_LINE == <<"1", "5", "-", "0", "3", "-", "2", "0", "2", "4", "\n", "\n">>
REF_LINES == <<"\n", "1", "2", "3", "4", "5", "\n">>

INFO_RATA == <<"R", "a", "t", "a", " ", "2", " ", "d", "i", "n", " ", "1", "2", " ", "S", "U", "P", "E", "R", "M", "A", "R", "K", "E", "T">>
INFO_RATA_OVER == <<"R", "a", "t", "a", " ", "5", " ", "d", "i", "n", " ", "3", " ", "S", "H", "O", "P">>
INFO_RATA_ZERO == <<"R", "a", "t", "a", " ", "0", " ", "d", "i", "n", " ", "1", "2", " ", "S", "H", "O", "P">>
INFO_RATA_EMPTY == <<"R", "a", "t", "a", " ", " ", "d", "i", "n", " ", "S", "H", "O", "P">>
INFO_MERCHANT == <<"P", "O", "S", " ", "1", "6", "-", "0", "3", "-", "2", "0", "2", "4", " ", "1", "2", "3", " ", "K", "A", "U", "F", "L", "A", "N", "D", " ", "7", "U", "P", " ", "X", "9">>
INFO_TOTAL == <<"R", "a", "t", "a", " ", "1", " ", "d", "i", "n", " ", "1", "2", " ", "1", "6", ".", "0", "3", ".", "2", "0", "2", "4", " ", "E", "M", "A", "G", " ", "c", "o", "m", "e", "r", "c", "i", "a", "n", "t", " ", "1", ".", "2", "0", "0", ",", "0", "0", " ", "R", "O", "N">>
INFO_TOTAL_EMPTY == <<"P", "O", "S", " ", "1", "6", "-", "0", "3", "-", "2", "0", "2", "4", " ", "E", "M", "A", "G", " ", "c", "o", "m", "e", "r", "c", "i", "a", "n", "t", " ", ".", ",", " ", "R", "O", "N">>
INFO_TWO_DATES == <<"1", "6", "-", "0", "3", "-", "2", "0", "2", "4", " ", "L", "I", "D", "L", " ", "1", "7", "-", "0", "3", "-", "2", "0", "2", "4", " ", "I", "A", "S", "I">>

TAIL_MINUS == <<"A", "B", "6", "7", "8", "9", "-", "1", "5", "0", ",", "0", "0">>
TAIL_PLUS == <<"A", "B", "6", "7", "8", "9", "+", "1", "5", "0", ",", "0", "0">>
TAIL_NOSIGN == <<"A", "B", "6", "7", "8", "9", " ", "1", ".", "2", "3", "4", ",", "5", "6">>
TAIL_NODIGIT == <<"A", "B", "6", "7", "8", "9", " ", ",">>
TAIL_BARE == <<"A", "B", "6", "7", "8", "9">>

Headers == {<<>>, HEADER_DASH, HEADER_DOT}
Infos == {INFO_RATA, INFO_RATA_OVER, INFO_RATA_ZERO, INFO_RATA_EMPTY, INFO_MERCHANT,
          INFO_TOTAL, INFO_TOTAL_EMPTY, INFO_TWO_DATES}
Tails == {TAIL_MINUS, TAIL_PLUS, TAIL_NOSIGN, TAIL_NODIGIT, TAIL_BARE}

Block(h, info, tl) == h \o DATE_LINE \o info \o REF_LINES \o tl

Blocks ==
    {Block(h, INFO_RATA, TAIL_MINUS) : h \in Headers}
    \cup {Block(HEADER_DASH, i, TAIL_MINUS) : i \in Infos}
    \cup {Block(HEADER_DASH, INFO_RATA, tl) : tl \in Tails}

Documents == UNION {[1..n -> Blocks] : n \in 0..MaxPages}

(***************************************************************************)
(* The amount tokens __normalize_amount is applied to: every string of at   *)
(* most MaxTokenLen characters of AmountAlphabet, and the two tokens of the *)
(* specification's scenario.                                                *)
(***************************************************************************)
MaxTokenLen == 4
AmountAlphabet == {"0", "1", "5", ".", ","}
TOKEN_1234_56 == <<"1", ".", "2", "3", "4", ",", "5", "6">>
TOKEN_50 == <<"5", "0">>
AmountTokens ==
    UNION {[1..n -> AmountAlphabet] : n \in 1..MaxTokenLen} \cup {TOKEN_1234_56, TOKEN_50}

(***************************************************************************)
(* Parsing a document: CecParser.parse_pdf, then the loop of parse_text,    *)
(* one step per match of BLOCK_RE.finditer(text).                           *)
(***************************************************************************)
\* content = pdf_to_text(pdf_path)
PdfToText ==
    /\ ppc = "start"
    /\ text' = pdf_to_text(pages)
    /\ ppc' = "scanning"
    /\ UNCHANGED <<pages, pos, results>>

\* One iteration of "for m in BLOCK_RE.finditer(text)": the transaction of the next
\* match is appended, unless the body raises, which ends parse_text with no result.
ParseBlock ==
    /\ ppc = "scanning"
    /\ LET m == NextMatch(text, pos)
       IN  /\ m.ok
           /\ IF BodyRaises(text, m)
              THEN ppc' = "raised" /\ UNCHANGED <<pos, results>>
              ELSE /\ results' = Append(results, Transaction(text, m))
                   /\ pos' = m.end
                   /\ ppc' = ppc
    /\ UNCHANGED <<pages, text>>

\* No match is left: return results.
ParseReturn ==
    /\ ppc = "scanning"
    /\ ~NextMatch(text, pos).ok
    /\ ppc' = "returned"
    /\ UNCHANGED <<pages, text, pos, results>>

(***************************************************************************)
(* Normalising one amount token.                                            *)
(***************************************************************************)
NormalizeAmount ==
    /\ apc = "start"
    /\ IF normalize_amount_raises(token)
       THEN cents' = cents /\ apc' = "raised"
       ELSE cents' = normalize_amount(token) /\ apc' = "done"
    /\ UNCHANGED token

InitSpecParse ==
    /\ pages \in Documents
    /\ text = None
    /\ pos = 1
    /\ results = <<>>
    /\ ppc = "start"
    /\ token = <<>> /\ cents = 0 /\ apc = "idle"
    /\ transactions = <<>> /\ rate_buckets = <<>> /\ cheltuieli = 0 /\ rate_noi = 0
    /\ summary = <<>> /\ sheet = <<>> /\ xpc = "idle"
    /\ rules = <<>> /\ table = <<>> /\ store = <<>> /\ category = "" /\ cpc = "idle"
    /\ args = <<>> /\ disk = <<>> /\ workbook = <<>> /\ saved = <<>>
    /\ outcome = "none" /\ rpc = "idle"
    /\ valid = FALSE /\ detected = "" /\ dpc = "idle"
    /\ rule_rows = <<>> /\ csv_lines = <<>> /\ loaded = <<>>
    /\ rules_from = "none" /\ lpc = "idle"
    /\ pdf_path = "" /\ selected_parser = "" /\ excel_path = "" /\ output_path = ""
    /\ use_existing_excel = TRUE /\ process_btn = "normal" /\ detect_threads = <<>>
    /\ worker = <<>> /\ after_queue = <<>> /\ pressed = "" /\ chosen = ""

NextParse ==
    \/ PdfToText
          /\ UNCHANGED <<amountVars, processVars, categoryVars, runVars, detectVars, loadVars, guiVars>>
    \/ ParseBlock
          /\ UNCHANGED <<amountVars, processVars, categoryVars, runVars, detectVars, loadVars, guiVars>>
    \/ ParseReturn
          /\ UNCHANGED <<amountVars, processVars, categoryVars, runVars, detectVars, loadVars, guiVars>>

SpecParse == InitSpecParse /\ [][NextParse]_vars

InitSpecAmount ==
    /\ token \in AmountTokens
    /\ cents = 0
    /\ apc = "start"
    /\ pages = <<>> /\ text = None /\ pos = 1 /\ results = <<>> /\ ppc = "idle"
    /\ transactions = <<>> /\ rate_buckets = <<>> /\ cheltuieli = 0 /\ rate_noi = 0
    /\ summary = <<>> /\ sheet = <<>> /\ xpc = "idle"
    /\ rules = <<>> /\ table = <<>> /\ store = <<>> /\ category = "" /\ cpc = "idle"
    /\ args = <<>> /\ disk = <<>> /\ workbook = <<>> /\ saved = <<>>
    /\ outcome = "none" /\ rpc = "idle"
    /\ valid = FALSE /\ detected = "" /\ dpc = "idle"
    /\ rule_rows = <<>> /\ csv_lines = <<>> /\ loaded = <<>>
    /\ rules_from = "none" /\ lpc = "idle"
    /\ pdf_path = "" /\ selected_parser = "" /\ excel_path = "" /\ output_path = ""
    /\ use_existing_excel = TRUE /\ process_btn = "normal" /\ detect_threads = <<>>
    /\ worker = <<>> /\ after_queue = <<>> /\ pressed = "" /\ chosen = ""

NextAmount == NormalizeAmount /\ UNCHANGED <<parseVars, processVars, categoryVars, runVars, detectVars, loadVars, guiVars>>

SpecAmount == InitSpecAmount /\ [][NextAmount]_vars

(***************************************************************************)
(* Claims about the parser and the amount normaliser.                       *)
(***************************************************************************)
Contains(s, sub) == \E p \in 1..Len(s) : LitAt(s, p, sub)
HasDigit(s) == \E i \in 1..Len(s) : IsDigit(s[i])

C1_TEXT == <<"1", "5", "-", "0", "3", "-", "2", "0", "2", "4", "\n", "\n", "R", "a", "t", "a", " ", "2", " ", "d", "i", "n", " ", "1", "2", " ", "S", "U", "P", "E", "R", "M", "A", "R", "K", "E", "T", "\n", "1", "2", "3", "4", "5", "\n", "A", "B", "6", "7", "8", "9", "-", "1", "5", "0", ",", "0", "0">>
SUPERMARKET == <<"S", "U", "P", "E", "R", "M", "A", "R", "K", "E", "T">>

\* C1: parse_text on the scenario's block "15-03-2024\n\nRata 2 din 12 SUPERMARKET
\* \n12345\nAB6789-150,00" yields a transaction with installment 2 of 12, amount
\* -150.00 and a store containing "SUPERMARKET".
C1_ScenarioTransaction ==
    (text = C1_TEXT /\ ppc \in {"returned", "raised"}) =>
        /\ ppc = "returned"
        /\ \E i \in 1..Len(results) :
              /\ results[i].installment = Some(2)
              /\ results[i].installment_count = Some(12)
              /\ results[i].amount = 0 - 15000
              /\ Contains(results[i].store, SUPERMARKET)

\* The integer a token's digits spell, read left to right past the separators.
RECURSIVE SpelledFrom(_, _, _)
SpelledFrom(tok, i, acc) ==
    IF i > Len(tok) THEN acc
    ELSE SpelledFrom(tok, i + 1,
                     IF IsDigit(tok[i]) THEN 10 * acc + DigitVal(tok[i]) ELSE acc)
SpelledCents(tok) == SpelledFrom(tok, 1, 0)

\* C2: for every token of digits and separators with at least one digit, the
\* normalised amount in cents is the integer the token's digits spell; "1.234,56"
\* gives 1234.56 and "50" gives 0.50.
C2_NormalizeAmount ==
    /\ (apc \in {"done", "raised"} /\ HasDigit(token)) =>
           (apc = "done" /\ cents = SpelledCents(token))
    /\ (apc \in {"done", "raised"} /\ token = TOKEN_1234_56) => cents = 123456
    /\ (apc \in {"done", "raised"} /\ token = TOKEN_50) => cents = 50

C2_Witness == apc = "done" /\ token = TOKEN_1234_56 /\ cents = 123456

\* C3: every transaction parse_text returns has installment and installment_count
\* both null or both present, and when present 1 <= installment <= installment_count.
C3_InstallmentRange ==
    ppc = "returned" =>
        \A i \in 1..Len(results) :
            \/ results[i].installment = None /\ results[i].installment_count = None
            \/ /\ results[i].installment # None
               /\ results[i].installment_count # None
               /\ 1 <= results[i].installment[1]
               /\ results[i].installment[1] <= results[i].installment_count[1]

\* C10: a failed secondary extraction (installment phrase, merchant name, total
\* amount) inside a matched block never aborts parse_text: parse_text raises only
\* where the block's own amount token cannot be normalised.
C10_SecondaryNeverAborts ==
    ppc = "raised" => normalize_amount_raises(Group(text, NextMatch(text, pos).amount))

(***************************************************************************)
(* compute_summary (src/main.py).  A transaction is given by the fields the *)
(* function reads.  total_transaction is Optional and duck-typed, so it is  *)
(* tagged: a float (in cents), None, or a string float() cannot parse.      *)
(***************************************************************************)
Float(n) == [kind |-> "float", v |-> n]
NoValue == [kind |-> "none", v |-> 0]
BadString == [kind |-> "str", v |-> 0]

\* Python's truth value of an Optional[int]: None and 0 are false.
Truthy(opt) == opt # None /\ opt[1] # 0

\* float(total_tr or 0): raises ValueError on a string that is no number.
FloatRaises(x) == x.kind = "str"
FloatOrZero(x) == IF x.kind = "float" THEN x.v ELSE 0

\* Lines 99-104: what a transaction adds to rate_noi; the exception is passed over.
RateNoiAdd_every(tx) ==
    IF FloatRaises(tx.total_transaction) THEN 0 ELSE FloatOrZero(tx.total_transaction)
RateNoiAdd(tx) ==
    IF tx.installment[1] = 1
    THEN IF FloatRaises(tx.total_transaction) THEN 0 ELSE FloatOrZero(tx.total_transaction)
    ELSE 0

\* rate_buckets[k] += amount on a defaultdict(int): a new key is put last, at 0.
BucketIndex(buckets, k) == Leftmost({i \in 1..Len(buckets) : buckets[i].months = k})
AddToBucket_assign(buckets, k, amount) ==
    IF BucketIndex(buckets, k) = 0
    THEN Append(buckets, [months |-> k, sum |-> 0 + amount])
    ELSE [buckets EXCEPT ![BucketIndex(buckets, k)].sum = amount]
AddToBucket(buckets, k, amount) ==
    IF BucketIndex(buckets, k) = 0
    THEN Append(buckets, [months |-> k, sum |-> 0 + amount])
    ELSE [buckets EXCEPT ![BucketIndex(buckets, k)].sum = @ + amount]

\* rata_total - rata_nr raises TypeError when installment_count is None.
StepRaises(tx) == Truthy(tx.installment) /\ tx.installment_count = None

\* The body of "for tx in transactions" (lines 88-104).
SummaryStep(acc, tx) ==
    IF ~Truthy(tx.installment)
    THEN [acc EXCEPT !.cheltuieli = @ + tx.amount]
    ELSE [rate_buckets |-> AddToBucket(acc.rate_buckets,
                                       tx.installment_count[1] - tx.installment[1],
                                       tx.amount),
          cheltuieli |-> acc.cheltuieli,
          rate_noi |-> acc.rate_noi + RateNoiAdd(tx)]

RECURSIVE SummaryFrom(_, _, _)
SummaryFrom(txs, i, acc) ==
    IF i > Len(txs) THEN acc
    ELSE SummaryFrom(txs, i + 1, SummaryStep(acc, txs[i]))

compute_summary(txs) ==
    SummaryFrom(txs, 1, [rate_buckets |-> <<>>, cheltuieli |-> 0, rate_noi |-> 0])
compute_summary_raises(txs) == \E i \in 1..Len(txs) : StepRaises(txs[i])

(***************************************************************************)
(* The summary rows and write_summary_section_openpyxl (excel_io.py).       *)
(* The two header cells of row 1 hold labels and are left out.              *)
(***************************************************************************)
NUM_COLUMNS == 9
START_ROW == 2
SummaryColumn == NUM_COLUMNS + 3

\* [{"months": k, "sum": v} for k, v in rate_buckets.items()]
SummaryRows(buckets) ==
    [i \in 1..Len(buckets) |-> [months |-> buckets[i].months, sum |-> buckets[i].sum]]

\* for i, row in enumerate(summary, start=start_row): the two cells of each row.
write_summary_section_openpyxl(rows, col) ==
    [rc \in {<<START_ROW + i - 1, col + j>> : i \in 1..Len(rows), j \in {0, 1}} |->
        IF rc[2] = col THEN rows[rc[1] - START_ROW + 1].months
        ELSE rows[rc[1] - START_ROW + 1].sum]

(***************************************************************************)
(* The transactions given to process_pdf_to_excel: every list of at most    *)
(* MaxTransactions of the records below.                                    *)
(***************************************************************************)
MaxTransactions == 3

TX_1_OF_12 == [amount |-> -10000, installment |-> Some(1), installment_count |-> Some(12),
               total_transaction |-> Float(-120000)]
TX_2_OF_12 == [amount |-> -10000, installment |-> Some(2), installment_count |-> Some(12),
               total_transaction |-> NoValue]
TX_PLAIN == [amount |-> -3000, installment |-> None, installment_count |-> None,
             total_transaction |-> NoValue]
TX_1_OF_11 == [amount |-> -2500, installment |-> Some(1), installment_count |-> Some(11),
               total_transaction |-> BadString]
TX_3_OF_5 == [amount |-> -4000, installment |-> Some(3), installment_count |-> Some(5),
              total_transaction |-> Float(-20000)]
TX_0_OF_12 == [amount |-> -700, installment |-> Some(0), installment_count |-> Some(12),
               total_transaction |-> Float(-8400)]
TX_1_OF_1 == [amount |-> -900, installment |-> Some(1), installment_count |-> Some(1),
              total_transaction |-> Float(-900)]
TX_REFUND == [amount |-> 1500, installment |-> None, installment_count |-> None,
              total_transaction |-> Float(1500)]

TxDomain == {TX_1_OF_12, TX_2_OF_12, TX_PLAIN, TX_1_OF_11, TX_3_OF_5, TX_0_OF_12,
             TX_1_OF_1, TX_REFUND}
TxLists == UNION {[1..n -> TxDomain] : n \in 0..MaxTransactions}

(***************************************************************************)
(* process_pdf_to_excel after parse_pdf (src/main.py, lines 46-72).         *)
(***************************************************************************)
\* if not transactions: return False, ...
NoTransactions ==
    /\ xpc = "start"
    /\ transactions = <<>>
    /\ xpc' = "no_transactions"
    /\ UNCHANGED <<transactions, rate_buckets, cheltuieli, rate_noi, summary, sheet>>

\* rate_buckets, cheltuieli, rate_noi = compute_summary(transactions)
ComputeSummary ==
    /\ xpc = "start"
    /\ transactions # <<>>
    /\ IF compute_summary_raises(transactions)
       THEN xpc' = "raised" /\ UNCHANGED <<rate_buckets, cheltuieli, rate_noi>>
       ELSE /\ rate_buckets' = compute_summary(transactions).rate_buckets
            /\ cheltuieli' = compute_summary(transactions).cheltuieli
            /\ rate_noi' = compute_summary(transactions).rate_noi
            /\ xpc' = "summarised"
    /\ UNCHANGED <<transactions, summary, sheet>>

\* write_summary_section_openpyxl(trans_ws, [...], len(columns) + 3, language)
WriteSummarySection ==
    /\ xpc = "summarised"
    /\ summary' = SummaryRows(rate_buckets)
    /\ sheet' = write_summary_section_openpyxl(SummaryRows(rate_buckets), SummaryColumn)
    /\ xpc' = "written"
    /\ UNCHANGED <<transactions, rate_buckets, cheltuieli, rate_noi>>

InitSpecProcess ==
    /\ transactions \in TxLists
    /\ rate_buckets = <<>> /\ cheltuieli = 0 /\ rate_noi = 0
    /\ summary = <<>> /\ sheet = <<>> /\ xpc = "start"
    /\ pages = <<>> /\ text = None /\ pos = 1 /\ results = <<>> /\ ppc = "idle"
    /\ token = <<>> /\ cents = 0 /\ apc = "idle"
    /\ rules = <<>> /\ table = <<>> /\ store = <<>> /\ category = "" /\ cpc = "idle"
    /\ args = <<>> /\ disk = <<>> /\ workbook = <<>> /\ saved = <<>>
    /\ outcome = "none" /\ rpc = "idle"
    /\ valid = FALSE /\ detected = "" /\ dpc = "idle"
    /\ rule_rows = <<>> /\ csv_lines = <<>> /\ loaded = <<>>
    /\ rules_from = "none" /\ lpc = "idle"
    /\ pdf_path = "" /\ selected_parser = "" /\ excel_path = "" /\ output_path = ""
    /\ use_existing_excel = TRUE /\ process_btn = "normal" /\ detect_threads = <<>>
    /\ worker = <<>> /\ after_queue = <<>> /\ pressed = "" /\ chosen = ""

NextProcess ==
    \/ NoTransactions
          /\ UNCHANGED <<parseVars, amountVars, categoryVars, runVars, detectVars, loadVars, guiVars>>
    \/ ComputeSummary
          /\ UNCHANGED <<parseVars, amountVars, categoryVars, runVars, detectVars, loadVars, guiVars>>
    \/ WriteSummarySection
          /\ UNCHANGED <<parseVars, amountVars, categoryVars, runVars, detectVars, loadVars, guiVars>>

SpecProcess == InitSpecProcess /\ [][NextProcess]_vars

(***************************************************************************)
(* Properties of compute_summary and of the summary rows.                   *)
(***************************************************************************)
Summarised == xpc \in {"summarised", "written"}

RECURSIVE SumAmounts(_, _)
SumAmounts(txs, S) ==
    IF S = {} THEN 0
    ELSE LET i == CHOOSE j \in S : TRUE
         IN  txs[i].amount + SumAmounts(txs, S \ {i})

TotalOrZero(tx) ==
    CASE tx.total_transaction.kind = "float" -> tx.total_transaction.v
      [] OTHER -> 0

RECURSIVE SumTotals(_, _)
SumTotals(txs, S) ==
    IF S = {} THEN 0
    ELSE LET i == CHOOSE j \in S : TRUE
         IN  TotalOrZero(txs[i]) + SumTotals(txs, S \ {i})

NullIndex(txs) == {i \in 1..Len(txs) : txs[i].installment = None}
WithIndex(txs) == {i \in 1..Len(txs) : txs[i].installment # None}
MonthsRemaining(tx) == tx.installment_count[1] - tx.installment[1]
InBucket(txs, k) == {i \in WithIndex(txs) : MonthsRemaining(txs[i]) = k}
BucketMap(buckets) == {<<buckets[i].months, buckets[i].sum>> : i \in 1..Len(buckets)}

C4_TRANSACTIONS == <<TX_1_OF_12, TX_2_OF_12, TX_PLAIN>>

\* C4: every amount goes to exactly one accumulator: to cheltuieli if and only
\* if the installment index is null, otherwise to the bucket of
\* installment_count - installment; the spec's three transactions give
\* buckets {11: -100, 10: -100}, cheltuieli -30 and rate_noi -1200.
C4_Accumulators ==
    (xpc \in {"summarised", "written", "raised"}) =>
        /\ xpc # "raised"
        /\ cheltuieli = SumAmounts(transactions, NullIndex(transactions))
        /\ BucketMap(rate_buckets) =
              {<<MonthsRemaining(transactions[i]),
                 SumAmounts(transactions, InBucket(transactions, MonthsRemaining(transactions[i])))>> :
                 i \in WithIndex(transactions)}
        /\ (transactions = C4_TRANSACTIONS) =>
              /\ BucketMap(rate_buckets) = {<<11, -10000>>, <<10, -10000>>}
              /\ cheltuieli = -3000
              /\ rate_noi = -120000

\* C5: rate_noi is the sum of total_transaction over exactly the transactions
\* whose installment index is 1, a null or unparsable total counting as 0, and
\* computing it never raises.
C5_NewlyOpenedTotal ==
    (xpc \in {"summarised", "written", "raised"}) =>
        /\ xpc # "raised"
        /\ rate_noi = SumTotals(transactions,
                                {i \in 1..Len(transactions) : transactions[i].installment = Some(1)})

C5_Witness ==
    /\ xpc = "summarised"
    /\ transactions = <<TX_1_OF_12, TX_1_OF_11, TX_3_OF_5>>
    /\ rate_noi = -120000

\* C6: for every transaction sequence and every permutation of it,
\* compute_summary returns the same bucket mapping, the same cheltuieli and the
\* same rate_noi.
C6_OrderIndependent ==
    Summarised =>
        \A p \in Permutations(1..Len(transactions)) :
            LET shuffled == [i \in 1..Len(transactions) |-> transactions[p[i]]]
                r == compute_summary(shuffled)
            IN  /\ ~compute_summary_raises(shuffled)
                /\ BucketMap(r.rate_buckets) = BucketMap(rate_buckets)
                /\ r.cheltuieli = cheltuieli
                /\ r.rate_noi = rate_noi

C6_Witness ==
    /\ xpc = "summarised"
    /\ transactions = <<TX_2_OF_12, TX_1_OF_12, TX_1_OF_11>>
    /\ BucketMap(rate_buckets) = {<<10, -12500>>, <<11, -10000>>}
    /\ rate_noi = -120000

\* C7: the summary rows handed to the writer, and the rows written to the
\* sheet, are in ascending order of months remaining.
C7_RowsAscending ==
    (xpc = "written") =>
        /\ \A i, j \in 1..Len(summary) : i < j => summary[i].months <= summary[j].months
        /\ \A a, b \in DOMAIN sheet :
              (a[2] = SummaryColumn /\ b[2] = SummaryColumn /\ a[1] < b[1]) => sheet[a] <= sheet[b]

(***************************************************************************)
(* The category column (src/core/excel_io.py).  The transactions sheet gets *)
(* the calculated-column formula                                            *)
(*   =INDEX(Rules[category],MATCH(1,INDEX(--ISNUMBER(SEARCH(                *)
(*        INDEX(Rules[pattern],0),@[store])),0),0))                         *)
(* and the spreadsheet evaluates it for each row against the Rules table.   *)
(* The functions below are the spreadsheet's, restricted to what the        *)
(* formula uses; a value that may be an error is [err, v].  SEARCH's escape *)
(* character ~ is not in the alphabet of the patterns below.                *)
(***************************************************************************)
NA == "#N/A"
Value(n) == [err |-> FALSE, v |-> n]
ErrorValue == [err |-> TRUE, v |-> 0]

\* SEARCH is not case-sensitive.
Fold(c) ==
    IF \E i \in 1..Len(LowerCase) : LowerCase[i] = c
    THEN UpperCase[CHOOSE i \in 1..Len(LowerCase) : LowerCase[i] = c]
    ELSE c

\* find_text from its i-th character on matches within_text at position j:
\* ? stands for any one character, * for any run of characters.
RECURSIVE MatchAt(_, _, _, _)
MatchAt(find_text, i, within_text, j) ==
    IF i > Len(find_text) THEN TRUE
    ELSE IF find_text[i] = "*"
         THEN \E k \in j..(Len(within_text) + 1) : MatchAt(find_text, i + 1, within_text, k)
         ELSE IF j > Len(within_text) THEN FALSE
              ELSE /\ find_text[i] = "?" \/ Fold(find_text[i]) = Fold(within_text[j])
                   /\ MatchAt(find_text, i + 1, within_text, j + 1)

\* The characters of find_text in order, not necessarily next to each other.
RECURSIVE ScatteredAt(_, _, _, _)
ScatteredAt(find_text, i, within_text, j) ==
    IF i > Len(find_text) THEN TRUE
    ELSE \E k \in j..Len(within_text) :
            /\ Fold(find_text[i]) = Fold(within_text[k])
            /\ ScatteredAt(find_text, i + 1, within_text, k + 1)

SEARCH_scattered(find_text, within_text) ==
    IF {s \in 1..Len(within_text) : ScatteredAt(find_text, 1, within_text, s)} = {}
    THEN ErrorValue
    ELSE Value(Leftmost({s \in 1..Len(within_text) : ScatteredAt(find_text, 1, within_text, s)}))

\* SEARCH(find_text, within_text): the position of the first match, or #VALUE!.
SEARCH(find_text, within_text) ==
    IF {s \in 1..Len(within_text) : MatchAt(find_text, 1, within_text, s)} = {}
    THEN ErrorValue
    ELSE Value(Leftmost({s \in 1..Len(within_text) : MatchAt(find_text, 1, within_text, s)}))

ISNUMBER(x) == ~x.err

\* The double unary minus: TRUE is 1 and FALSE is 0.
ToNumber(b) == IF b THEN 1 ELSE 0

MATCH_last(lookup_value, lookup_array) ==
    IF {i \in 1..Len(lookup_array) : lookup_array[i] = lookup_value} = {}
    THEN ErrorValue
    ELSE Value(CHOOSE i \in 1..Len(lookup_array) :
                   /\ lookup_array[i] = lookup_value
                   /\ \A j \in 1..Len(lookup_array) : lookup_array[j] = lookup_value => j <= i)

\* MATCH(lookup_value, lookup_array, 0): the first position of an equal value, or #N/A.
MATCH(lookup_value, lookup_array) ==
    IF {i \in 1..Len(lookup_array) : lookup_array[i] = lookup_value} = {}
    THEN ErrorValue
    ELSE Value(Leftmost({i \in 1..Len(lookup_array) : lookup_array[i] = lookup_value}))

\* INDEX(array, row_num); the error of the row number propagates.
INDEX(array, row_num) == IF row_num.err THEN NA ELSE array[row_num.v]

CategoryFormula(rows, merchant) ==
    INDEX([i \in 1..Len(rows) |-> rows[i].category],
          MATCH(1, [i \in 1..Len(rows) |->
                       ToNumber(ISNUMBER(SEARCH(rows[i].pattern, merchant)))]))

\* for pat, cat in rules: ws.append([pat, cat])
RulesRows(rs) == [i \in 1..Len(rs) |-> [pattern |-> rs[i].pattern, category |-> rs[i].category]]

(***************************************************************************)
(* The rule lists, the Rules table a workbook may already hold, and the     *)
(* merchants.                                                               *)
(***************************************************************************)
MaxRules == 2

AMZ == <<"A", "M", "Z">>
AMAZON == <<"A", "M", "A", "Z", "O", "N">>
MKTP_LOWER == <<"m", "k", "t", "p">>
A_ANY_A == <<"A", "?", "A">>
ON_RUN_P == <<"O", "N", "*", "P">>
ZARA == <<"Z", "A", "R", "A">>
AMAZON_MKTP == <<"A", "M", "A", "Z", "O", "N", " ", "M", "K", "T", "P">>
AMZ_ZARA == <<"a", "m", "z", " ", "z", "a", "r", "a">>
ZARA_MIXED == <<"Z", "a", "r", "a">>
LIDL == <<"L", "I", "D", "L">>

Patterns == {AMZ, AMAZON, MKTP_LOWER, A_ANY_A, ON_RUN_P, ZARA}
Labels == {"Shopping", "Online"}
Merchants == {AMAZON_MKTP, AMZ_ZARA, ZARA_MIXED, LIDL, <<>>}
RuleDomain == {[pattern |-> p, category |-> c] : p \in Patterns, c \in Labels}
RuleLists == UNION {[1..n -> RuleDomain] : n \in 0..MaxRules}
EXISTING_TABLE == <<[pattern |-> LIDL, category |-> "Food"],
                    [pattern |-> ZARA_MIXED, category |-> "Clothes"]>>

\* write_transactions_sheet_openpyxl sets the formula if rules is not empty;
\* write_rules_sheet_openpyxl, called if rules is not empty, leaves a Rules
\* sheet that already exists as it is.
WriteSheets ==
    /\ cpc = "start"
    /\ table' = IF rules = <<>> \/ table # <<>> THEN table ELSE RulesRows(rules)
    /\ cpc' = "sheets_written"
    /\ UNCHANGED <<rules, store, category>>

\* The spreadsheet evaluates the row's category cell: the formula if one was
\* set, the empty cell otherwise.
Recalculate ==
    /\ cpc = "sheets_written"
    /\ category' = IF rules = <<>> THEN "" ELSE CategoryFormula(table, store)
    /\ cpc' = "calculated"
    /\ UNCHANGED <<rules, table, store>>

InitSpecCategory ==
    /\ rules \in RuleLists
    /\ table \in {<<>>, EXISTING_TABLE}
    /\ store \in Merchants
    /\ category = "" /\ cpc = "start"
    /\ pages = <<>> /\ text = None /\ pos = 1 /\ results = <<>> /\ ppc = "idle"
    /\ token = <<>> /\ cents = 0 /\ apc = "idle"
    /\ transactions = <<>> /\ rate_buckets = <<>> /\ cheltuieli = 0 /\ rate_noi = 0
    /\ summary = <<>> /\ sheet = <<>> /\ xpc = "idle"
    /\ args = <<>> /\ disk = <<>> /\ workbook = <<>> /\ saved = <<>>
    /\ outcome = "none" /\ rpc = "idle"
    /\ valid = FALSE /\ detected = "" /\ dpc = "idle"
    /\ rule_rows = <<>> /\ csv_lines = <<>> /\ loaded = <<>>
    /\ rules_from = "none" /\ lpc = "idle"
    /\ pdf_path = "" /\ selected_parser = "" /\ excel_path = "" /\ output_path = ""
    /\ use_existing_excel = TRUE /\ process_btn = "normal" /\ detect_threads = <<>>
    /\ worker = <<>> /\ after_queue = <<>> /\ pressed = "" /\ chosen = ""

NextCategory ==
    \/ WriteSheets
          /\ UNCHANGED <<parseVars, amountVars, processVars, runVars, detectVars, loadVars, guiVars>>
    \/ Recalculate
          /\ UNCHANGED <<parseVars, amountVars, processVars, runVars, detectVars, loadVars, guiVars>>

SpecCategory == InitSpecCategory /\ [][NextCategory]_vars

(***************************************************************************)
(* Properties of the category formula.                                      *)
(***************************************************************************)
SameLetter(a, b) ==
    \/ a = b
    \/ \E i \in 1..Len(UpperCase) : {a, b} = {UpperCase[i], LowerCase[i]}

\* pattern is, letter case aside, a run of consecutive characters of merchant
Occurs(pattern, merchant) ==
    \E k \in 0..(Len(merchant) - Len(pattern)) :
        \A i \in 1..Len(pattern) : SameLetter(pattern[i], merchant[k + i])

NoWildcard(pattern) ==
    pattern # <<>> /\ \A i \in 1..Len(pattern) : pattern[i] \notin {"?", "*", "~"}
FormulaShown == cpc = "calculated" /\ rules # <<>>

\* C8: the category shown for a row is the label of the lowest-positioned rule
\* of the Rules table whose pattern occurs case-insensitively within the
\* merchant, whatever later rules also match.
C8_FirstOccurrence ==
    FormulaShown =>
        \A i \in 1..Len(table) :
            (/\ Occurs(table[i].pattern, store)
             /\ \A j \in 1..(i - 1) : ~Occurs(table[j].pattern, store))
            => category = table[i].category

\* C8 as amended: the same, provided neither that rule's pattern nor the
\* pattern of any rule before it is empty or holds one of the characters
\* ?, * and ~, which SEARCH does not take literally.
C8_FirstOccurrenceNoWildcard ==
    FormulaShown =>
        \A i \in 1..Len(table) :
            (/\ \A j \in 1..i : NoWildcard(table[j].pattern)
             /\ Occurs(table[i].pattern, store)
             /\ \A j \in 1..(i - 1) : ~Occurs(table[j].pattern, store))
            => category = table[i].category

C8_Witness ==
    /\ FormulaShown
    /\ table = <<[pattern |-> AMAZON, category |-> "Online"],
                 [pattern |-> MKTP_LOWER, category |-> "Shopping"]>>
    /\ store = AMAZON_MKTP
    /\ category = "Online"

C9_RULES == <<[pattern |-> AMZ, category |-> "Shopping"],
              [pattern |-> AMAZON, category |-> "Online"]>>
C9_Scenario == FormulaShown /\ rules = C9_RULES /\ table = C9_RULES /\ store = AMAZON_MKTP

\* C9: with the rules [("AMZ","Shopping"),("AMAZON","Online")] and the merchant
\* "AMAZON MKTP" the category is "Shopping" and not "Online".
C9_ShoppingWins == C9_Scenario => (category = "Shopping" /\ category # "Online")

\* C9 as amended: "AMZ" does not occur within "AMAZON MKTP", so the category
\* is "Online", the label of the only rule that matches.
C9_OnlineWins ==
    C9_Scenario => (category = "Online" /\ ~Occurs(AMZ, AMAZON_MKTP) /\ Occurs(AMAZON, AMAZON_MKTP))

C9_Witness == C9_Scenario /\ category = "Online"

(***************************************************************************)
(* Further properties of parse_text.                                        *)
(***************************************************************************)
ParseEnded == ppc \in {"returned", "raised"}
HEADERLESS_BLOCK == Block(<<>>, INFO_RATA, TAIL_MINUS)

\* C14: the header date is optional: a block in which only the transaction
\* date precedes the info blob is recognised and yields one transaction whose
\* header_date is null.
C14_HeaderDateOptional ==
    (ParseEnded /\ pages = <<HEADERLESS_BLOCK>>) =>
        /\ ppc = "returned"
        /\ Len(results) = 1
        /\ results[1].header_date = None

PureDigits(w) == \A i \in 1..Len(w) : IsDigit(w[i])
NotPureDigits(w) == ~PureDigits(w)
AfterFirstDate(info) == SubSeq(info, FindDate(info, 1) + DATE_LEN, Len(info))

\* C15: for a matched block whose info blob holds a date-shaped substring the
\* store is everything after the first such substring with only the pure-digit
\* tokens removed: tokens with a non-digit character are kept, and so is the
\* text after a second date-shaped substring.
C15_MerchantAfterFirstDate ==
    (ppc = "returned") =>
        \A i \in 1..Len(results) :
            FindDate(results[i].details, 1) # 0 =>
                results[i].store =
                    JoinWords(SelectSeq(SplitWords(AfterFirstDate(results[i].details)),
                                        NotPureDigits))

\* C16: a "+" sign token gives the normalised amount unchanged (non-negative),
\* an absent or "-" token gives it negated (non-positive).
C16_AmountSign ==
    /\ \A i \in 1..Len(results) :
          /\ results[i].sign \in {None, <<"+">>, <<"-">>}
          /\ results[i].sign = <<"+">> => results[i].amount >= 0
          /\ results[i].sign # <<"+">> => results[i].amount <= 0
    /\ (ppc = "returned" /\ pages = <<Block(HEADER_DASH, INFO_RATA, TAIL_PLUS)>>)
          => results[1].amount = 15000
    /\ (ppc = "returned" /\ pages = <<Block(HEADER_DASH, INFO_RATA, TAIL_MINUS)>>)
          => results[1].amount = -15000
    /\ (ppc = "returned" /\ pages = <<Block(HEADER_DASH, INFO_RATA, TAIL_NOSIGN)>>)
          => results[1].amount = -123456

C16_Witness ==
    /\ ppc = "returned"
    /\ pages = <<Block(HEADER_DASH, INFO_RATA, TAIL_PLUS), Block(HEADER_DASH, INFO_RATA, TAIL_NOSIGN)>>
    /\ Len(results) = 2
    /\ results[1].sign = <<"+">> /\ results[1].amount = 15000
    /\ results[2].sign = None /\ results[2].amount = -123456

\* The matches of BLOCK_RE.finditer(t) from p on, in textual order.
RECURSIVE MatchesFrom(_, _)
MatchesFrom(t, p) ==
    IF ~NextMatch(t, p).ok THEN <<>>
    ELSE <<NextMatch(t, p)>> \o MatchesFrom(t, NextMatch(t, p).end)

\* C17: every block the block pattern matches, those with sign "+" included,
\* becomes exactly one output transaction, and the output is in the textual
\* order of the blocks.
C17_EveryBlockOneTransaction ==
    ParseEnded =>
        /\ ppc = "returned"
        /\ Len(results) = Len(MatchesFrom(text, 1))
        /\ \A i \in 1..Len(results) :
              /\ results[i].date = Group(text, MatchesFrom(text, 1)[i].date)
              /\ results[i].sign = Group(text, MatchesFrom(text, 1)[i].sign)
              /\ results[i].number = Group(text, MatchesFrom(text, 1)[i].number)

(***************************************************************************)
(* process_pdf_to_excel as a whole (src/main.py, lines 33-75): parse_pdf,   *)
(* the early return, the workbook that is opened or created, the sheets     *)
(* written into it and workbook.save.  A workbook is a function from sheet  *)
(* names to sheets; of a sheet only where it comes from and how many data   *)
(* rows it has is kept.                                                     *)
(***************************************************************************)
NoFile == <<>>
Paths == {"book.xlsx", "out.xlsx"}
ExistingSheet == [origin |-> "existing", rows |-> 1]
WrittenSheet(n) == [origin |-> "written", rows |-> n]

\* openpyxl.Workbook(): a workbook with the one sheet "Sheet"
NewWorkbook == "Sheet" :> [origin |-> "created", rows |-> 0]

\* if not transactions
NoTransactionsFound_never(txs) == FALSE
NoTransactionsFound(txs) == txs = <<>>

\* os.path.exists(existing_excel); "" stands for None and for the empty path
PathExists(d, path) == path \in DOMAIN d /\ d[path] # NoFile

\* Lines 50-53: openpyxl.open(existing_excel) or openpyxl.Workbook()
OpenOrCreate(d, existing_excel) ==
    IF existing_excel # "" /\ PathExists(d, existing_excel)
    THEN d[existing_excel] ELSE NewWorkbook

\* if sheet_name in wb.sheetnames: raise ValueError
SheetExists_never(wb, sheet_name) == FALSE
SheetExists(wb, sheet_name) == sheet_name \in DOMAIN wb

\* wb.create_sheet(title): openpyxl gives a title already in use a numeral.
UniqueTitle(wb, title) ==
    IF title \notin DOMAIN wb THEN title
    ELSE CASE title = "Tranzactii" -> "Tranzactii1"
           [] title = "Martie" -> "Martie1"
           [] OTHER -> "Rules1"
create_sheet(wb, title, ws) == (UniqueTitle(wb, title) :> ws) @@ wb

\* write_transactions_sheet_openpyxl past its check: one row per transaction
write_transactions_sheet_openpyxl(wb, sheet_name, txs) ==
    create_sheet(wb, sheet_name, WrittenSheet(Len(txs)))

\* if use_rules and rules: write_rules_sheet_openpyxl, which keeps a Rules
\* sheet that is already there
write_rules_sheet_openpyxl(wb, rs) ==
    IF rs = <<>> \/ "Rules" \in DOMAIN wb THEN wb
    ELSE create_sheet(wb, "Rules", WrittenSheet(Len(rs)))

MaxRunPages == 2
NO_DATE_PAGE == <<"E", "X", "T", "R", "A", "S", " ", "D", "E", " ", "C", "O", "N", "T", " ", "C", "E", "C", "\n", "S", "o", "l", "d", " ", "f", "i", "n", "a", "l", " ", "1", ".", "2", "3", "4", ",", "5", "6", " ", "R", "O", "N">>
RunPages == {NO_DATE_PAGE, HEADERLESS_BLOCK,
             Block(HEADER_DASH, INFO_RATA, TAIL_MINUS),
             Block(HEADER_DASH, INFO_TOTAL, TAIL_PLUS),
             Block(HEADER_DASH, INFO_RATA_EMPTY, TAIL_MINUS)}
RunDocuments == UNION {[1..n -> RunPages] : n \in 0..MaxRunPages}
BOOK_PLAIN == "Sheet1" :> ExistingSheet
BOOK_TRANZACTII == ("Tranzactii" :> ExistingSheet) @@ ("Rules" :> ExistingSheet)
Books == {NoFile, BOOK_PLAIN, BOOK_TRANZACTII}
RunArgs == [existing_excel : {"", "book.xlsx"}, output_path : Paths,
            sheet_name : {"Tranzactii", "Martie"},
            rules : {<<>>, <<[pattern |-> AMZ, category |-> "Shopping"]>>}]

\* parse_pdf raised: process_pdf_to_excel catches nothing
RunParseRaised ==
    /\ rpc = "parse_pdf" /\ ppc = "raised"
    /\ outcome' = "raised" /\ rpc' = "done"
    /\ UNCHANGED <<args, disk, workbook, saved>>

\* Lines 46-47: return False, no_transactions_found
RunNoTransactions ==
    /\ rpc = "parse_pdf" /\ ppc = "returned"
    /\ NoTransactionsFound(results)
    /\ outcome' = "no_transactions" /\ rpc' = "done"
    /\ UNCHANGED <<args, disk, workbook, saved>>

\* Lines 50-53
RunOpenWorkbook ==
    /\ rpc = "parse_pdf" /\ ppc = "returned"
    /\ ~NoTransactionsFound(results)
    /\ workbook' = Some(OpenOrCreate(disk, args.existing_excel))
    /\ rpc' = "opened"
    /\ UNCHANGED <<args, disk, saved, outcome>>

\* Lines 55-72: the transactions sheet (ValueError if the name is taken), the
\* Rules sheet, and the summary cells, which go into the transactions sheet.
RunWriteSheets ==
    /\ rpc = "opened"
    /\ IF SheetExists(workbook[1], args.sheet_name)
       THEN outcome' = "raised" /\ rpc' = "done" /\ UNCHANGED workbook
       ELSE /\ workbook' = Some(write_rules_sheet_openpyxl(
                                  write_transactions_sheet_openpyxl(
                                      workbook[1], args.sheet_name, results),
                                  args.rules))
            /\ rpc' = "written"
            /\ UNCHANGED outcome
    /\ UNCHANGED <<args, disk, saved>>

\* Lines 74-75: workbook.save(output_path); return True
RunSave ==
    /\ rpc = "written"
    /\ disk' = [disk EXCEPT ![args.output_path] = workbook[1]]
    /\ saved' = Append(saved, args.output_path)
    /\ outcome' = "success" /\ rpc' = "done"
    /\ UNCHANGED <<args, workbook>>

InitSpecRun ==
    /\ pages \in RunDocuments
    /\ text = None /\ pos = 1 /\ results = <<>> /\ ppc = "start"
    /\ args \in RunArgs
    /\ disk \in [Paths -> Books]
    /\ disk["out.xlsx"] = NoFile
    /\ workbook = None /\ saved = <<>> /\ outcome = "none" /\ rpc = "parse_pdf"
    /\ token = <<>> /\ cents = 0 /\ apc = "idle"
    /\ transactions = <<>> /\ rate_buckets = <<>> /\ cheltuieli = 0 /\ rate_noi = 0
    /\ summary = <<>> /\ sheet = <<>> /\ xpc = "idle"
    /\ rules = <<>> /\ table = <<>> /\ store = <<>> /\ category = "" /\ cpc = "idle"
    /\ valid = FALSE /\ detected = "" /\ dpc = "idle"
    /\ rule_rows = <<>> /\ csv_lines = <<>> /\ loaded = <<>>
    /\ rules_from = "none" /\ lpc = "idle"
    /\ pdf_path = "" /\ selected_parser = "" /\ excel_path = "" /\ output_path = ""
    /\ use_existing_excel = TRUE /\ process_btn = "normal" /\ detect_threads = <<>>
    /\ worker = <<>> /\ after_queue = <<>> /\ pressed = "" /\ chosen = ""

NextRun ==
    \/ PdfToText
          /\ UNCHANGED <<amountVars, processVars, categoryVars, runVars, detectVars, loadVars, guiVars>>
    \/ ParseBlock
          /\ UNCHANGED <<amountVars, processVars, categoryVars, runVars, detectVars, loadVars, guiVars>>
    \/ ParseReturn
          /\ UNCHANGED <<amountVars, processVars, categoryVars, runVars, detectVars, loadVars, guiVars>>
    \/ RunParseRaised
          /\ UNCHANGED <<parseVars, amountVars, processVars, categoryVars, detectVars, loadVars, guiVars>>
    \/ RunNoTransactions
          /\ UNCHANGED <<parseVars, amountVars, processVars, categoryVars, detectVars, loadVars, guiVars>>
    \/ RunOpenWorkbook
          /\ UNCHANGED <<parseVars, amountVars, processVars, categoryVars, detectVars, loadVars, guiVars>>
    \/ RunWriteSheets
          /\ UNCHANGED <<parseVars, amountVars, processVars, categoryVars, detectVars, loadVars, guiVars>>
    \/ RunSave
          /\ UNCHANGED <<parseVars, amountVars, processVars, categoryVars, detectVars, loadVars, guiVars>>

SpecRun == InitSpecRun /\ [][NextRun]_vars

(***************************************************************************)
(* Properties of process_pdf_to_excel.                                      *)
(***************************************************************************)
\* no file holds a sheet this call has written
DiskUntouched ==
    \A path \in Paths : \A name \in DOMAIN disk[path] : disk[path][name].origin = "existing"

\* C11: when the document yields no transaction, in particular when it holds
\* no date-shaped substring, process_pdf_to_excel returns the no-transactions
\* failure without raising, and no workbook is opened, modified or saved.
C11_NoTransactionsOutcome ==
    /\ (rpc # "parse_pdf" /\ ppc = "returned" /\ results = <<>>) =>
          /\ rpc = "done" /\ outcome = "no_transactions"
          /\ workbook = None /\ saved = <<>> /\ DiskUntouched
    /\ (rpc = "done" /\ FindDate(pdf_to_text(pages), 1) = 0) => outcome = "no_transactions"

C11_Witness ==
    /\ rpc = "done" /\ outcome = "no_transactions"
    /\ pages = <<NO_DATE_PAGE, NO_DATE_PAGE>>
    /\ args.existing_excel = "book.xlsx" /\ disk["book.xlsx"] = BOOK_PLAIN

\* the workbook being updated is one opened from a file, and it already holds
\* a sheet named sheet_name
UpdatingBookWithSheet ==
    /\ workbook # None
    /\ args.existing_excel # ""
    /\ args.sheet_name \in DOMAIN workbook[1]
    /\ workbook[1][args.sheet_name].origin = "existing"

\* C20: if the workbook being updated already holds a sheet named sheet_name,
\* process_pdf_to_excel fails with an error before anything is saved: no file
\* is written and the workbook on disk is as it was.
C20_SheetExistsNothingSaved ==
    UpdatingBookWithSheet =>
        /\ saved = <<>> /\ DiskUntouched
        /\ rpc \in {"opened", "done"}
        /\ rpc = "done" => outcome = "raised"

C20_Witness ==
    /\ UpdatingBookWithSheet
    /\ rpc = "done" /\ outcome = "raised"
    /\ args.output_path = "book.xlsx" /\ disk["book.xlsx"] = BOOK_TRANZACTII

(***************************************************************************)
(* CecParser.validate_pdf (cec_parser.py, lines 39-52) and                  *)
(* ParserRegistry.auto_detect_parser (src/parsers/__init__.py).             *)
(***************************************************************************)
CEC_PARSER == "CEC Parser"
cec_indicators == {<<"C", "E", "C">>,
                   <<"C", "A", "S", "A", " ", "D", "E", " ", "E", "C", "O", "N", "O", "M", "I", "I">>,
                   <<"E", "X", "T", "R", "A", "S", " ", "D", "E", " ", "C", "O", "N", "T">>,
                   <<"R", "O", "N">>}

\* str.upper()
Upper(t) == [i \in 1..Len(t) |-> Fold(t[i])]

\* indicator in content_upper
InText(indicator, t) ==
    \E k \in 0..(Len(t) - Len(indicator)) :
        \A i \in 1..Len(indicator) : t[k + i] = indicator[i]

\* raw.get("content", ""): raw is the str pdf_to_text returns, which has no
\* attribute get; the AttributeError is caught by "except Exception".
RawGetRaises(raw) == TRUE

\* date_matches = len, the built-in itself (the call is on the next line, a
\* statement of its own): date_matches > 0 raises TypeError, which is caught.
DateMatchesRaises == TRUE

validate_pdf(ps) ==
    IF RawGetRaises(pdf_to_text(ps)) THEN FALSE
    ELSE IF Cardinality({ind \in cec_indicators : InText(ind, Upper(pdf_to_text(ps)))}) >= 2
         THEN (IF DateMatchesRaises THEN FALSE ELSE FindDate(pdf_to_text(ps), 1) # 0)
         ELSE FALSE

\* for name, parser_class in self._parsers.items(): the first parser, in the
\* registry's order, whose validate_pdf is true; validates[name] is that result.
auto_detect_parser(registry, validates) ==
    IF {i \in 1..Len(registry) : validates[registry[i]]} = {} THEN ""
    ELSE registry[Leftmost({i \in 1..Len(registry) : validates[registry[i]]})]

MaxDetectPages == 2
PAGE_CEC_DATE == <<"C", "E", "C", " ", "B", "a", "n", "k", " ", "1", "4", "-", "0", "3", "-", "2", "0", "2", "4">>
PAGE_LOWER_DATE == <<"C", "a", "s", "a", " ", "d", "e", " ", "E", "c", "o", "n", "o", "m", "i", "i", " ", "1", "4", ".", "0", "3", ".", "2", "0", "2", "4", " ", "r", "o", "n">>
PAGE_DATE_ONLY == <<"1", "4", "-", "0", "3", "-", "2", "0", "2", "4", " ", "F", "a", "c", "t", "u", "r", "a">>
PAGE_EXTRAS == <<"e", "x", "t", "r", "a", "s", " ", "d", "e", " ", "c", "o", "n", "t">>
DetectPages == {NO_DATE_PAGE, PAGE_CEC_DATE, PAGE_LOWER_DATE, PAGE_DATE_ONLY, PAGE_EXTRAS,
                Block(HEADER_DASH, INFO_TOTAL, TAIL_PLUS)}
DetectDocuments == UNION {[1..n -> DetectPages] : n \in 0..MaxDetectPages}

\* instance.validate_pdf(pdf_path)
ValidatePdf ==
    /\ dpc = "start"
    /\ valid' = validate_pdf(pages)
    /\ dpc' = "validated"
    /\ UNCHANGED detected

\* registry.auto_detect_parser(pdf_path), the registry holding the CEC parser
AutoDetectParser ==
    /\ dpc \in {"start", "validated"}
    /\ detected' = auto_detect_parser(<<CEC_PARSER>>, CEC_PARSER :> validate_pdf(pages))
    /\ dpc' = "detected"
    /\ UNCHANGED valid

InitSpecDetect ==
    /\ pages \in DetectDocuments
    /\ valid = FALSE /\ detected = "" /\ dpc = "start"
    /\ text = None /\ pos = 1 /\ results = <<>> /\ ppc = "idle"
    /\ token = <<>> /\ cents = 0 /\ apc = "idle"
    /\ transactions = <<>> /\ rate_buckets = <<>> /\ cheltuieli = 0 /\ rate_noi = 0
    /\ summary = <<>> /\ sheet = <<>> /\ xpc = "idle"
    /\ rules = <<>> /\ table = <<>> /\ store = <<>> /\ category = "" /\ cpc = "idle"
    /\ args = <<>> /\ disk = <<>> /\ workbook = <<>> /\ saved = <<>>
    /\ outcome = "none" /\ rpc = "idle"
    /\ rule_rows = <<>> /\ csv_lines = <<>> /\ loaded = <<>>
    /\ rules_from = "none" /\ lpc = "idle"
    /\ pdf_path = "" /\ selected_parser = "" /\ excel_path = "" /\ output_path = ""
    /\ use_existing_excel = TRUE /\ process_btn = "normal" /\ detect_threads = <<>>
    /\ worker = <<>> /\ after_queue = <<>> /\ pressed = "" /\ chosen = ""

NextDetect ==
    \/ ValidatePdf
          /\ UNCHANGED <<parseVars, amountVars, processVars, categoryVars, runVars, loadVars, guiVars>>
    \/ AutoDetectParser
          /\ UNCHANGED <<parseVars, amountVars, processVars, categoryVars, runVars, loadVars, guiVars>>

SpecDetect == InitSpecDetect /\ [][NextDetect]_vars

\* The number of the family's markers in the text, letter case aside.
MarkerCount(t) ==
    Cardinality({ind \in cec_indicators :
                    \E k \in 0..(Len(t) - Len(ind)) :
                        \A i \in 1..Len(ind) : SameLetter(t[k + i], ind[i])})
CecDocument(ps) == MarkerCount(pdf_to_text(ps)) >= 2 /\ FindDate(pdf_to_text(ps), 1) # 0

\* C12: validate_pdf is true exactly when the text holds at least 2 of the
\* markers CEC, CASA DE ECONOMII, EXTRAS DE CONT, RON (letter case aside) and
\* at least one date-shaped substring; auto_detect_parser then selects the CEC
\* parser.
C12_ValidatePdf ==
    /\ dpc = "validated" => (valid <=> CecDocument(pages))
    /\ (dpc = "detected" /\ CecDocument(pages)) => detected = CEC_PARSER

(***************************************************************************)
(* The rule-load step (src/main.py, lines 537-566, and load_rules, lines    *)
(* 21-30).  A cell of the Rules sheet is its text, "" for an empty cell; a  *)
(* line of rules.csv is a sequence of characters.                           *)
(***************************************************************************)
\* line.split(",")
RECURSIVE SplitComma(_)
SplitComma(line) ==
    IF \A i \in 1..Len(line) : line[i] # ","
    THEN <<line>>
    ELSE LET k == Leftmost({i \in 1..Len(line) : line[i] = ","})
         IN  <<SubSeq(line, 1, k - 1)>> \o SplitComma(SubSeq(line, k + 1, Len(line)))

\* load_rules: ValueError("Bad rules file") on a line with fewer than 2 elements
load_rules_raises(lines) == \E i \in 1..Len(lines) : Len(SplitComma(lines[i])) < 2
load_rules(lines) ==
    [i \in 1..Len(lines) |-> <<SplitComma(lines[i])[1], SplitComma(lines[i])[2]>>]

\* Lines 547-553, one row: row[1] of a one-cell row raises IndexError; a row
\* with an empty pattern or category cell is passed over.
RowRaises(row) == Len(row) < 2
RowKept(row) == row[1] # "" /\ row[2] # ""

\* The rows appended before the loop ends or raises; "except Exception: pass"
\* leaves what was appended in rules.
RECURSIVE RulesOfSheet(_)
RulesOfSheet(rows) ==
    IF rows = <<>> THEN <<>>
    ELSE IF RowRaises(rows[1]) THEN <<>>
    ELSE IF RowKept(rows[1]) THEN <<<<rows[1][1], rows[1][2]>>>> \o RulesOfSheet(Tail(rows))
    ELSE RulesOfSheet(Tail(rows))

MaxRuleRows == 2
ROW_AMZ == <<"AMZ", "Shopping">>
ROW_LIDL == <<"LIDL", "Food">>
ROW_NO_CATEGORY == <<"ZARA", "">>
ROW_NO_PATTERN == <<"", "Food">>
ROW_ONE_CELL == <<"EMAG">>
LINE_AMZ == <<"A", "M", "Z", ",", "S", "h", "o", "p", "p", "i", "n", "g", "\n">>
LINE_LIDL == <<"L", "I", "D", "L", ",", "F", "o", "o", "d", "\n">>
LINE_SHORT == <<"Z", "A", "R", "A", "\n">>
LINE_BLANK == <<"\n">>
LINE_LONG == <<"E", "M", "A", "G", ",", "O", "n", "l", "i", "n", "e", ",", "x", "\n">>
SheetRows == {ROW_AMZ, ROW_LIDL, ROW_NO_CATEGORY, ROW_NO_PATTERN}
CsvLines == {LINE_AMZ, LINE_LIDL, LINE_SHORT, LINE_BLANK, LINE_LONG}
RuleSheets == UNION {[1..n -> SheetRows] : n \in 0..MaxRuleRows} \cup {<<ROW_ONE_CELL>>}
RuleFiles == UNION {[1..n -> CsvLines] : n \in 0..MaxRuleRows}

\* Lines 538-556: the rules of the workbook's Rules sheet
ReadWorkbookRules ==
    /\ lpc = "start"
    /\ loaded' = RulesOfSheet(rule_rows)
    /\ rules_from' = IF RulesOfSheet(rule_rows) = <<>> THEN "none" ELSE "workbook"
    /\ lpc' = "workbook_read"
    /\ UNCHANGED <<rule_rows, csv_lines>>

\* Lines 558-564: if not rules, load_rules(rules.csv), [] if it raises
ReadRulesFile ==
    /\ lpc = "workbook_read"
    /\ loaded = <<>>
    /\ loaded' = IF load_rules_raises(csv_lines) THEN <<>> ELSE load_rules(csv_lines)
    /\ rules_from' = IF load_rules_raises(csv_lines) \/ csv_lines = <<>> THEN "none" ELSE "file"
    /\ lpc' = "file_read"
    /\ UNCHANGED <<rule_rows, csv_lines>>

\* Line 566: use_rules_flag = bool(rules); rules is what the run uses
UseRules ==
    /\ \/ lpc = "workbook_read" /\ loaded # <<>>
       \/ lpc = "file_read"
    /\ lpc' = "loaded"
    /\ UNCHANGED <<rule_rows, csv_lines, loaded, rules_from>>

InitSpecLoad ==
    /\ rule_rows \in RuleSheets
    /\ csv_lines \in RuleFiles
    /\ loaded = <<>> /\ rules_from = "none" /\ lpc = "start"
    /\ pages = <<>> /\ text = None /\ pos = 1 /\ results = <<>> /\ ppc = "idle"
    /\ token = <<>> /\ cents = 0 /\ apc = "idle"
    /\ transactions = <<>> /\ rate_buckets = <<>> /\ cheltuieli = 0 /\ rate_noi = 0
    /\ summary = <<>> /\ sheet = <<>> /\ xpc = "idle"
    /\ rules = <<>> /\ table = <<>> /\ store = <<>> /\ category = "" /\ cpc = "idle"
    /\ args = <<>> /\ disk = <<>> /\ workbook = <<>> /\ saved = <<>>
    /\ outcome = "none" /\ rpc = "idle"
    /\ valid = FALSE /\ detected = "" /\ dpc = "idle"
    /\ pdf_path = "" /\ selected_parser = "" /\ excel_path = "" /\ output_path = ""
    /\ use_existing_excel = TRUE /\ process_btn = "normal" /\ detect_threads = <<>>
    /\ worker = <<>> /\ after_queue = <<>> /\ pressed = "" /\ chosen = ""

NextLoad ==
    \/ ReadWorkbookRules
          /\ UNCHANGED <<parseVars, amountVars, processVars, categoryVars, runVars, detectVars, guiVars>>
    \/ ReadRulesFile
          /\ UNCHANGED <<parseVars, amountVars, processVars, categoryVars, runVars, detectVars, guiVars>>
    \/ UseRules
          /\ UNCHANGED <<parseVars, amountVars, processVars, categoryVars, runVars, detectVars, guiVars>>

SpecLoad == InitSpecLoad /\ [][NextLoad]_vars

\* a row of the sheet with a cell missing, a line of the file with fewer than
\* two comma-separated elements
ShortRow(row) == Len(row) < 2 \/ row[1] = "" \/ row[2] = ""
ShortLine(line) == \A i \in 1..Len(line) : line[i] # ","

\* C13: a rule table with a malformed or short row is rejected as a whole, in
\* both load paths: the rule list used for the run is never a partial table.
C13_NeverPartialTable ==
    (lpc = "loaded") =>
        /\ rules_from = "workbook" =>
              /\ \A i \in 1..Len(rule_rows) : ~ShortRow(rule_rows[i])
              /\ Len(loaded) = Len(rule_rows)
        /\ rules_from = "file" =>
              /\ \A i \in 1..Len(csv_lines) : ~ShortLine(csv_lines[i])
              /\ Len(loaded) = Len(csv_lines)


-----------------------------------------------------------------------------
(* ParserGUI (src/main.py): the Process button and the threads the window    *)
(* starts.  The main loop runs one handler at a time; background_proc and    *)
(* _process_pdf_thread run in threads of their own, one step at a time.      *)

\* The two statement families a PDF can belong to.
CEC_PDF == "cec.pdf"
LINE_PDF == "line.pdf"
PdfFiles == {CEC_PDF, LINE_PDF}

\* What pdf_to_text yields for each file.
FilePages(filename) ==
    IF filename = CEC_PDF THEN <<PAGE_LOWER_DATE>> ELSE <<PAGE_DATE_ONLY>>

\* The parser of the line-window grammar.  Its module is loaded from the
\* parsers directory at start-up; canHandle holds for the documents of its
\* own family.
LINE_PARSER == "Line Parser"
line_validate_pdf(filename) == filename = LINE_PDF

\* registry._parsers, in insertion order
Registry == <<CEC_PARSER, LINE_PARSER>>

\* instance.validate_pdf(filename) of every registered parser
Validates(filename) ==
    (CEC_PARSER :> validate_pdf(FilePages(filename)))
        @@ (LINE_PARSER :> line_validate_pdf(filename))

\* The three ways process_pdf_to_excel ends.
RunOutcomes == {"success", "no_transactions", "raised"}

IdleWorker ==
    [pc |-> "idle", parser |-> "", outcome |-> "none", use_existing |-> FALSE,
     existing_excel |-> "", output_path |-> ""]

RemoveAt(seq, i) == SubSeq(seq, 1, i - 1) \o SubSeq(seq, i + 1, Len(seq))

\* Lines 490-518: process_pdf returns early unless every input is there.
InputsValid ==
    /\ pdf_path # ""
    /\ selected_parser # ""
    /\ IF use_existing_excel THEN excel_path # "" ELSE output_path # ""

Finally_unless_raised(queue, result) ==
    IF result = "raised" THEN queue ELSE Append(queue, "normal")

\* Lines 608-610: the finally clause queues the re-enabling callback whatever
\* the try block did.
Finally(queue, result) == Append(queue, "normal")

MaxDetectThreads == 1

\* browse_pdf: the dialog returns a file and background_proc is started.
BrowsePdf ==
    /\ Len(detect_threads) < MaxDetectThreads
    /\ \E filename \in PdfFiles :
         detect_threads' =
             Append(detect_threads, [file |-> filename, pc |-> "set_path"])
    /\ chosen' = ""
    /\ UNCHANGED <<pdf_path, selected_parser, excel_path, output_path,
                   use_existing_excel, process_btn, worker, after_queue, pressed>>

\* background_proc, line 407: self.pdf_path.set(filename)
DetectSetPath ==
    \E i \in 1..Len(detect_threads) :
      /\ detect_threads[i].pc = "set_path"
      /\ pdf_path' = detect_threads[i].file
      /\ detect_threads' = [detect_threads EXCEPT ![i].pc = "detect"]
      /\ UNCHANGED <<selected_parser, excel_path, output_path,
                     use_existing_excel, process_btn, worker, after_queue,
                     pressed, chosen>>

\* background_proc, lines 409-411: the detected parser, if any, is selected.
DetectSelect ==
    \E i \in 1..Len(detect_threads) :
      /\ detect_threads[i].pc = "detect"
      /\ LET detected_parser ==
                 auto_detect_parser(Registry, Validates(detect_threads[i].file))
         IN  selected_parser' = IF detected_parser # ""
                                THEN detected_parser
                                ELSE selected_parser
      /\ detect_threads' = RemoveAt(detect_threads, i)
      /\ UNCHANGED <<pdf_path, excel_path, output_path, use_existing_excel,
                     process_btn, worker, after_queue, pressed, chosen>>

\* The read-only combobox: the user picks one of the registered parsers.
ChooseParser ==
    /\ \E i \in 1..Len(Registry) :
         /\ selected_parser' = Registry[i]
         /\ chosen' = Registry[i]
    /\ UNCHANGED <<pdf_path, excel_path, output_path, use_existing_excel,
                   process_btn, detect_threads, worker, after_queue, pressed>>

\* browse_excel: the chosen workbook is also the output file.  Its button is
\* in excel_frame, which _update_output_visibility shows only while the
\* checkbox is checked.
BrowseExcel ==
    /\ use_existing_excel
    /\ \E filename \in Paths :
         /\ excel_path' = filename
         /\ output_path' = filename
    /\ UNCHANGED <<pdf_path, selected_parser, use_existing_excel, process_btn,
                   detect_threads, worker, after_queue, pressed, chosen>>

\* clear_excel: its button is in excel_frame too.
ClearExcel ==
    /\ use_existing_excel
    /\ excel_path' = ""
    /\ output_path' = ""
    /\ UNCHANGED <<pdf_path, selected_parser, use_existing_excel, process_btn,
                   detect_threads, worker, after_queue, pressed, chosen>>

\* browse_output: its button is in output_frame, shown only while the
\* checkbox is unchecked.
BrowseOutput ==
    /\ ~use_existing_excel
    /\ \E filename \in Paths : output_path' = filename
    /\ UNCHANGED <<pdf_path, selected_parser, excel_path, use_existing_excel,
                   process_btn, detect_threads, worker, after_queue, pressed,
                   chosen>>

\* The use-existing checkbox; _update_output_visibility only shows and hides
\* widgets.
ToggleUseExisting ==
    /\ use_existing_excel' = ~use_existing_excel
    /\ UNCHANGED <<pdf_path, selected_parser, excel_path, output_path,
                   process_btn, detect_threads, worker, after_queue, pressed,
                   chosen>>

\* process_pdf: a disabled button does not call its command.
ProcessPdf ==
    /\ process_btn = "normal"
    /\ InputsValid
    /\ process_btn' = "disabled"
    /\ worker' = [IdleWorker EXCEPT !.pc = "started",
                                    !.use_existing = use_existing_excel]
    /\ pressed' = selected_parser
    /\ UNCHANGED <<pdf_path, selected_parser, excel_path, output_path,
                   use_existing_excel, detect_threads, after_queue, chosen>>

\* _process_pdf_thread, line 535: the worker reads selected_parser.
WorkerCreateParser ==
    /\ worker.pc = "started"
    /\ worker' = [worker EXCEPT !.parser = selected_parser, !.pc = "created"]
    /\ UNCHANGED <<pdf_path, selected_parser, excel_path, output_path,
                   use_existing_excel, process_btn, detect_threads,
                   after_queue, pressed, chosen>>

\* Lines 537-607: the rules, process_pdf_to_excel called with
\* existing_excel = excel_path.get() and output_path.get(), and the message
\* box.
WorkerProcess ==
    /\ worker.pc = "created"
    /\ \E result \in RunOutcomes :
         worker' = [worker EXCEPT !.existing_excel = excel_path,
                                  !.output_path = output_path,
                                  !.outcome = result, !.pc = "reported"]
    /\ UNCHANGED <<pdf_path, selected_parser, excel_path, output_path,
                   use_existing_excel, process_btn, detect_threads,
                   after_queue, pressed, chosen>>

\* Lines 608-610, after which the thread ends and its locals are gone; the
\* outcome stays on the screen in the log.
WorkerFinally ==
    /\ worker.pc = "reported"
    /\ after_queue' = Finally(after_queue, worker.outcome)
    /\ worker' = [IdleWorker EXCEPT !.pc = "finished",
                                    !.outcome = worker.outcome]
    /\ UNCHANGED <<pdf_path, selected_parser, excel_path, output_path,
                   use_existing_excel, process_btn, detect_threads, pressed,
                   chosen>>

\* The main loop runs the queued lambda: process_btn.config(state="normal")
AfterCallback ==
    /\ after_queue # <<>>
    /\ process_btn' = Head(after_queue)
    /\ after_queue' = Tail(after_queue)
    /\ UNCHANGED <<pdf_path, selected_parser, excel_path, output_path,
                   use_existing_excel, detect_threads, worker, pressed, chosen>>

InitSpecGui ==
    /\ pdf_path = "" /\ excel_path = "" /\ output_path = ""
    /\ selected_parser = Registry[1]
    /\ use_existing_excel = TRUE /\ process_btn = "normal"
    /\ detect_threads = <<>> /\ worker = IdleWorker /\ after_queue = <<>>
    /\ pressed = "" /\ chosen = ""
    /\ pages = <<>> /\ text = None /\ pos = 1 /\ results = <<>> /\ ppc = "idle"
    /\ token = <<>> /\ cents = 0 /\ apc = "idle"
    /\ transactions = <<>> /\ rate_buckets = <<>> /\ cheltuieli = 0 /\ rate_noi = 0
    /\ summary = <<>> /\ sheet = <<>> /\ xpc = "idle"
    /\ rules = <<>> /\ table = <<>> /\ store = <<>> /\ category = "" /\ cpc = "idle"
    /\ args = <<>> /\ disk = <<>> /\ workbook = <<>> /\ saved = <<>>
    /\ outcome = "none" /\ rpc = "idle"
    /\ valid = FALSE /\ detected = "" /\ dpc = "idle"
    /\ rule_rows = <<>> /\ csv_lines = <<>> /\ loaded = <<>>
    /\ rules_from = "none" /\ lpc = "idle"

NextGui ==
    \/ BrowsePdf
          /\ UNCHANGED
             <<parseVars, amountVars, processVars, categoryVars, runVars, detectVars, loadVars>>
    \/ DetectSetPath
          /\ UNCHANGED
             <<parseVars, amountVars, processVars, categoryVars, runVars, detectVars, loadVars>>
    \/ DetectSelect
          /\ UNCHANGED
             <<parseVars, amountVars, processVars, categoryVars, runVars, detectVars, loadVars>>
    \/ ChooseParser
          /\ UNCHANGED
             <<parseVars, amountVars, processVars, categoryVars, runVars, detectVars, loadVars>>
    \/ BrowseExcel
          /\ UNCHANGED
             <<parseVars, amountVars, processVars, categoryVars, runVars, detectVars, loadVars>>
    \/ ClearExcel
          /\ UNCHANGED
             <<parseVars, amountVars, processVars, categoryVars, runVars, detectVars, loadVars>>
    \/ BrowseOutput
          /\ UNCHANGED
             <<parseVars, amountVars, processVars, categoryVars, runVars, detectVars, loadVars>>
    \/ ToggleUseExisting
          /\ UNCHANGED
             <<parseVars, amountVars, processVars, categoryVars, runVars, detectVars, loadVars>>
    \/ ProcessPdf
          /\ UNCHANGED
             <<parseVars, amountVars, processVars, categoryVars, runVars, detectVars, loadVars>>
    \/ WorkerCreateParser
          /\ UNCHANGED
             <<parseVars, amountVars, processVars, categoryVars, runVars, detectVars, loadVars>>
    \/ WorkerProcess
          /\ UNCHANGED
             <<parseVars, amountVars, processVars, categoryVars, runVars, detectVars, loadVars>>
    \/ WorkerFinally
          /\ UNCHANGED
             <<parseVars, amountVars, processVars, categoryVars, runVars, detectVars, loadVars>>
    \/ AfterCallback
          /\ UNCHANGED
             <<parseVars, amountVars, processVars, categoryVars, runVars, detectVars, loadVars>>

SpecGui == InitSpecGui /\ [][NextGui]_vars

\* The threads the window has started keep running, and the main loop keeps
\* serving its queue.
WorkerStep ==
    (WorkerCreateParser \/ WorkerProcess \/ WorkerFinally)
        /\ UNCHANGED 
            <<parseVars, amountVars, processVars, categoryVars, runVars, detectVars, loadVars>>

MainLoopStep == AfterCallback /\ UNCHANGED 
            <<parseVars, amountVars, processVars, categoryVars, runVars, detectVars, loadVars>>

SpecGuiLive ==
    SpecGui /\ WF_vars(WorkerStep) /\ WF_vars(MainLoopStep)


WorkerRunning == worker.pc \in {"started", "created", "reported"}

\* C18: from the moment process_pdf starts a worker the Process button stays
\* disabled while the worker runs, and whenever the button is disabled it is
\* re-enabled later, whether the worker ended in success, with no
\* transactions found or with an exception.
C18_ButtonReenabled ==
    /\ [](WorkerRunning => process_btn = "disabled")
    /\ (process_btn = "disabled") ~> (process_btn = "normal")

\* A worker that ended with an exception, and the button enabled again.
C18_Witness ==
    /\ worker.pc = "finished" /\ worker.outcome = "raised"
    /\ process_btn = "normal" /\ after_queue = <<>>


\* C19: the worker uses the parser that was selected when Process was
\* pressed, and the detection thread of browse_pdf never replaces a parser
\* the user picked by hand after picking the PDF.
C19_ParserAsPressed ==
    /\ worker.parser # "" => worker.parser = pressed
    /\ chosen # "" => selected_parser = chosen


\* A run that process_pdf started with the use-existing checkbox checked and
\* that has called process_pdf_to_excel.
ProcessedExisting == worker.pc = "reported" /\ worker.use_existing

\* C21: whatever browse_excel, clear_excel, browse_output and the checkbox
\* did before, a run started with the use-existing checkbox checked reads
\* the selected workbook and saves to that same file.
C21_SavesToExistingFile ==
    ProcessedExisting =>
        /\ worker.existing_excel # ""
        /\ worker.output_path = worker.existing_excel

====
